---------------------------- MODULE Spec2Model ----------------------------
(***************************************************************************)
(* State-machine models of the scripts of the repository:                  *)
(*   open_clip_train/train.py  train_one_epoch, AverageMeter,              *)
(*                             FairFaceSubset, evaluate_bias,              *)
(*                             get_clip_metrics                            *)
(*   generated_images_first/ord.py, generate_csv.py, generate_imgs.py,     *)
(*   generated_imgs.py                                                     *)
(* Every script is an independent program, so each has its own             *)
(* specification (SpecTrain, SpecOrd, ...) over its own group of           *)
(* variables; the variables of the other programs stay at their idle       *)
(* value.  pc is the position of the running program.                      *)
(***************************************************************************)
EXTENDS Integers, Sequences, FiniteSets, TLC

VARIABLES
    pc,
    \* ---- train.py : train_one_epoch
    args,            \* accum_freq, scaler (is not None), horovod, grad_clip_norm
    num_batches,     \* number of batches the dataloader yields
    i,               \* index of the batch of the current iteration
    j,               \* index of the inner accumulation loop
    accum_images, accum_texts, accum_features,
    model,           \* the model, wrapped in DistributedDataParallel (a
                     \* record with the field module) or not; its parameter
                     \* logit_scale is in tenths
    grads,           \* batches back-propagated since the last zero_grad()
    steps,           \* observation: the optimizer steps taken so far
    seen_scales      \* observation: logit_scale of the forward passes that
                     \* ran after the first optimizer step
VARIABLES
    \* ---- generated_images_first/ord.py
    dir,             \* the directory: file name -> the file (its first name)
    posix,           \* os.rename replaces an existing target (POSIX) or raises
    file_list,       \* the sorted listing of the run
    pos,             \* position of the for loop in file_list
    run,             \* 1: the first run of the script, 2: the run right after
    renamed,         \* observation: the os.rename calls that succeeded
    listed           \* observation: the file names before the first run
VARIABLES
    \* ---- generate_csv.py
    prompt_file,     \* the lines of the prompt file
    folder_files,    \* image folder -> the names of the files in it
    prompts,         \* the prompts kept
    csv_data,        \* the rows built so far
    csv_out          \* the rows written to the CSV file
VARIABLES
    \* ---- generate_imgs.py
    imgs_file,       \* the lines of the prompt file
    imgs_prompts,    \* prompts
    imgs_i,          \* the index i of the for loop
    imgs_written,    \* the paths of the files written in output_folder
    imgs_attempts    \* observation: the prompts attempted and how each ended
VARIABLES
    \* ---- generated_imgs.py
    gen_file,        \* the lines of the prompt file
    gen_prompts,     \* prompts
    gen_j,           \* the index j of the outer loop
    gen_i,           \* the index i of the inner loop
    gen_folders,     \* the output folders made
    gen_saved        \* the images saved: folder, file name and seed
VARIABLES
    \* ---- train.py : AverageMeter
    val, avg, sum, count,   \* the fields; avg is the fraction <<numerator, denominator>>
    raised,          \* the last call raised ZeroDivisionError
    updates          \* observation: the update(val, n) calls since the last reset()
VARIABLES
    \* ---- train.py : FairFaceSubset, evaluate_bias
    bias,            \* the bias argument of FairFaceSubset
    labels_file,     \* <bias>_labels.csv: whether it exists, and its rows
    data,            \* self.data
    mapping,         \* self.mapping
    index,           \* the next global index the loader asks for
    batch,           \* the items of the batch being collated
    items,           \* observation: everything __getitem__ has returned
    results,         \* [class, position] -> the global indices written there
    error            \* the exception that ended the program, or "none"
VARIABLES
    \* ---- train.py : get_clip_metrics
    image_features,  \* the argument: one feature vector per pair
    text_features,   \* the argument: one feature vector per pair
    logit_scale,     \* the argument
    todo,            \* the keys of logits the loop has still to visit
    preds,           \* preds of the last iteration of the loop
    metrics          \* the dictionary returned: name -> its entries; the
                     \* means are fractions <<numerator, denominator>>

trainVars == <<args, num_batches, i, j, accum_images, accum_texts,
               accum_features, model, grads, steps, seen_scales>>

ordVars == <<dir, posix, file_list, pos, run, renamed, listed>>

csvVars == <<prompt_file, folder_files, prompts, csv_data, csv_out>>

imgsVars == <<imgs_file, imgs_prompts, imgs_i, imgs_written, imgs_attempts>>

genVars == <<gen_file, gen_prompts, gen_j, gen_i, gen_folders, gen_saved>>

meterVars == <<val, avg, sum, count, raised, updates>>

fairVars == <<bias, labels_file, data, mapping, index, batch, items, results, error>>

metricsVars == <<image_features, text_features, logit_scale, todo, preds,
                 metrics>>

vars == <<pc, trainVars, ordVars, csvVars, imgsVars, genVars, meterVars, fairVars,
          metricsVars>>

\* what a program leaves alone: the variables of the other programs
notTrain == <<ordVars, csvVars, imgsVars, genVars, meterVars, fairVars,
    metricsVars>>
notOrd == <<trainVars, csvVars, imgsVars, genVars, meterVars, fairVars,
    metricsVars>>
notCsv == <<trainVars, ordVars, imgsVars, genVars, meterVars, fairVars,
    metricsVars>>
notImgs == <<trainVars, ordVars, csvVars, genVars, meterVars, fairVars,
    metricsVars>>
notGen == <<trainVars, ordVars, csvVars, imgsVars, meterVars, fairVars,
    metricsVars>>
notMeter == <<trainVars, ordVars, csvVars, imgsVars, genVars, fairVars,
    metricsVars>>
notFair == <<trainVars, ordVars, csvVars, imgsVars, genVars, meterVars,
    metricsVars>>
notMetrics == <<trainVars, ordVars, csvVars, imgsVars, genVars, meterVars, fairVars>>

(***************************************************************************)
(* Bounds of the model.                                                    *)
(***************************************************************************)
MaxBatches == 5
MaxAccumFreq == 3
MaxFiles == 3
MaxLines == 3
MaxListing == 2
MaxUpdates == 3
MaxWeight == 2
MaxRows == 5
MaxPairs == 3


(***************************************************************************)
(* Strings are sequences of one-character strings, so that the regular     *)
(* expressions, the splitting and the formatting of the scripts are        *)
(* computed character by character.                                        *)
(***************************************************************************)
DigitChars == <<"0", "1", "2", "3", "4", "5", "6", "7", "8", "9">>

IsDigit(c) == \E d \in 1..10 : DigitChars[d] = c

DigitVal(c) == (CHOOSE d \in 1..10 : DigitChars[d] = c) - 1

\* int(s) of a string of digits
RECURSIVE ParseInt(_)
ParseInt(s) ==
    IF s = <<>> THEN 0
    ELSE 10 * ParseInt(SubSeq(s, 1, Len(s) - 1)) + DigitVal(s[Len(s)])

\* str(n) of n >= 0
RECURSIVE IntToStr(_)
IntToStr(n) ==
    IF n < 10 THEN <<DigitChars[n + 1]>>
    ELSE IntToStr(n \div 10) \o <<DigitChars[(n % 10) + 1]>>

\* s.startswith(prefix, at), at counted from 1
StartsWithAt(s, prefix, at) ==
    /\ at + Len(prefix) - 1 <= Len(s)
    /\ \A q \in 1..Len(prefix) : s[at + q - 1] = prefix[q]

\* the longest run of decimal digits of s that starts at position at
RECURSIVE DigitRun(_, _)
DigitRun(s, at) ==
    IF at <= Len(s) /\ IsDigit(s[at]) THEN <<s[at]>> \o DigitRun(s, at + 1) ELSE <<>>

\* s.rfind(c), counted from 1; 0 when c is not in s
LastIndexOf(s, c) ==
    IF \E q \in 1..Len(s) : s[q] = c
    THEN CHOOSE q \in 1..Len(s) : s[q] = c /\ \A r \in (q + 1)..Len(s) : s[r] # c
    ELSE 0

\* the characters of the model in code point order
CodePointOrder ==
    <<"\t", "\n", " ", ".", "/", "0", "1", "2", "3", "4", "5", "6", "7", "8", "9",
      ":", "A", "N", "_", "a", "b", "c", "d", "e", "g", "i", "j", "k", "m", "n",
      "o", "p", "r", "t", "v", "x", "y", "z">>

CharCode(c) == CHOOSE q \in 1..Len(CodePointOrder) : CodePointOrder[q] = c

\* str.isspace() of one character
IsSpace(c) == c \in {" ", "\t", "\n"}

\* str.strip()
RECURSIVE LStrip(_)
LStrip(s) == IF s # <<>> /\ IsSpace(s[1]) THEN LStrip(Tail(s)) ELSE s

RECURSIVE RStrip(_)
RStrip(s) == IF s # <<>> /\ IsSpace(s[Len(s)]) THEN RStrip(SubSeq(s, 1, Len(s) - 1)) ELSE s

Strip(s) == RStrip(LStrip(s))

\* c in s
Contains(s, c) == \E q \in 1..Len(s) : s[q] = c

\* s.split(sep) for a one-character separator: the pieces between the
\* separators, empty pieces included
RECURSIVE SplitOn(_, _)
SplitOn(s, sep) ==
    IF ~Contains(s, sep) THEN <<s>>
    ELSE LET q == CHOOSE r \in 1..Len(s) : s[r] = sep /\ \A t \in 1..(r - 1) : s[t] # sep
         IN  <<SubSeq(s, 1, q - 1)>> \o SplitOn(SubSeq(s, q + 1, Len(s)), sep)

\* a < b for two strings: by code point, a proper prefix first
RECURSIVE StrLess(_, _)
StrLess(a, b) ==
    IF b = <<>> THEN FALSE
    ELSE IF a = <<>> THEN TRUE
    ELSE IF a[1] # b[1] THEN CharCode(a[1]) < CharCode(b[1])
    ELSE StrLess(Tail(a), Tail(b))

\* str.split(): the words between the runs of whitespace
RECURSIVE SplitWhitespace(_)
SplitWhitespace(s) ==
    LET t == LStrip(s) IN
    IF t = <<>> THEN <<>>
    ELSE IF \E q \in 1..Len(t) : IsSpace(t[q])
         THEN LET q == CHOOSE r \in 1..Len(t) : IsSpace(t[r]) /\ \A u \in 1..(r - 1) : ~IsSpace(t[u])
              IN  <<SubSeq(t, 1, q - 1)>> \o SplitWhitespace(SubSeq(t, q, Len(t)))
         ELSE <<t>>

\* sep.join(words)
RECURSIVE Join(_, _)
Join(words, sep) ==
    IF words = <<>> THEN <<>>
    ELSE IF Len(words) = 1 THEN words[1]
    ELSE words[1] \o sep \o Join(Tail(words), sep)

\* s[:n]
Take(s, n) == SubSeq(s, 1, IF Len(s) < n THEN Len(s) ELSE n)

\* c repeated n times
Repeat(c, n) == [q \in 1..n |-> c]

\* the sequences without repetition that list the set S
Listings(S) ==
    {f \in [1..Cardinality(S) -> S] : \A a, b \in 1..Cardinality(S) : a # b => f[a] # f[b]}

\* the subsets of S with at most n elements
SubsetsUpTo(S, n) == {T \in SUBSET S : Cardinality(T) <= n}

(***************************************************************************)
(* train.py : train_one_epoch                                              *)
(***************************************************************************)
\* math.log(100) = 4.6052, in tenths (line 196)
LnHundred == 46

\* values the optimizer may leave in logit_scale (tenths): below the range,
\* its ends, inside, above
ScaleValues == {-7, 0, 27, 46, 47, 90}

TrainIdle ==
    /\ args = [accum_freq |-> 1, scaler |-> FALSE, horovod |-> FALSE, grad_clip_norm |-> FALSE]
    /\ num_batches = 0
    /\ i = 0
    /\ j = 0
    /\ accum_images = <<>>
    /\ accum_texts = <<>>
    /\ accum_features = <<>>
    /\ model = [logit_scale |-> 0]
    /\ grads = <<>>
    /\ steps = <<>>
    /\ seen_scales = {}

TrainInit ==
    /\ pc = "loop"
    /\ args \in [accum_freq : 1..MaxAccumFreq, scaler : BOOLEAN,
                 horovod : BOOLEAN, grad_clip_norm : BOOLEAN]
    /\ num_batches \in 0..MaxBatches
    /\ i = 0
    /\ j = 0
    /\ accum_images = <<>>
    /\ accum_texts = <<>>
    /\ accum_features = <<>>
    /\ model \in {[logit_scale |-> v] : v \in ScaleValues}
                \cup {[module |-> [logit_scale |-> v]] : v \in ScaleValues}
    /\ grads = <<>>
    /\ steps = <<>>
    /\ seen_scales = {}

\* lines 57-61
unwrap_model(m) == IF "module" \in DOMAIN m THEN m.module ELSE m

\* the model with its parameter logit_scale set to v
WithLogitScale(m, v) ==
    IF "module" \in DOMAIN m THEN [m EXCEPT !.module.logit_scale = v]
    ELSE [m EXCEPT !.logit_scale = v]

\* model(images, texts): the forward pass reads logit_scale
Forward ==
    IF steps # <<>> THEN seen_scales \cup {unwrap_model(model).logit_scale} ELSE seen_scales

\* lines 129-136: the features and the inputs of the batch are cached
CacheAppend(cache, b) == Append(cache, b)

\* line 139: move on to the next batch unless accum_freq batches are cached
SkipStep(idx, k) == ((idx + 1) % k) > 0

\* line 192: accum_images, accum_texts, accum_features = [], [], {}
ResetCacheKeep(cache) == cache

ResetCache(cache) == <<>>

\* line 196: logit_scale.clamp_(0, math.log(100))
ClampLowOnly(x) == IF x < 0 THEN 0 ELSE x

Clamp(x) == IF x < 0 THEN 0 ELSE IF x > LnHundred THEN LnHundred ELSE x

\* lines 92-104: the for statement takes batch i, optimizer.zero_grad()
NextBatch ==
    /\ pc = "loop"
    /\ i < num_batches
    /\ grads' = <<>>
    /\ pc' = "forward"
    /\ UNCHANGED <<args, num_batches, i, j, accum_images, accum_texts,
                   accum_features, model, steps, seen_scales>>
    /\ UNCHANGED notTrain

\* lines 106-119: accum_freq == 1, forward and backward of the batch
ForwardSingle ==
    /\ pc = "forward"
    /\ args.accum_freq = 1
    /\ seen_scales' = Forward
    /\ grads' = Append(grads, i)
    /\ pc' = "step"
    /\ UNCHANGED <<args, num_batches, i, j, accum_images, accum_texts,
                   accum_features, model, steps>>
    /\ UNCHANGED notTrain

\* lines 120-146: accum_freq > 1, forward without gradient, cache, and either
\* continue with the next batch or reset the gradients for the inner loop
ForwardCache ==
    /\ pc = "forward"
    /\ args.accum_freq # 1
    /\ seen_scales' = Forward
    /\ accum_features' = CacheAppend(accum_features, i)
    /\ accum_images' = CacheAppend(accum_images, i)
    /\ accum_texts' = CacheAppend(accum_texts, i)
    /\ IF SkipStep(i, args.accum_freq)
       THEN /\ i' = i + 1
            /\ pc' = "loop"
            /\ UNCHANGED <<grads, j>>
       ELSE /\ grads' = <<>>
            /\ j' = 0
            /\ pc' = "accum"
            /\ i' = i
    /\ UNCHANGED <<args, num_batches, model, steps>>
    /\ UNCHANGED notTrain

\* lines 147-169: one turn of the inner loop: forward of cached batch j with
\* gradient, backward
AccumBackward ==
    /\ pc = "accum"
    /\ j < args.accum_freq
    /\ seen_scales' = Forward
    /\ grads' = Append(grads, accum_images[j + 1])
    /\ j' = j + 1
    /\ UNCHANGED <<pc, args, num_batches, i, accum_images, accum_texts,
                   accum_features, model, steps>>
    /\ UNCHANGED notTrain

\* line 147: range(accum_freq) is exhausted
AccumDone ==
    /\ pc = "accum"
    /\ j >= args.accum_freq
    /\ pc' = "step"
    /\ UNCHANGED trainVars
    /\ UNCHANGED notTrain

\* lines 171-188: the library calls of the optimizer step, in order
StepCalls(a) ==
    IF a.scaler
    THEN IF a.horovod
         THEN <<"optimizer.synchronize", "scaler.unscale_">>
              \o (IF a.grad_clip_norm THEN <<"clip_grad_norm_">> ELSE <<>>)
              \o <<"scaler.step", "scaler.update">>
         ELSE (IF a.grad_clip_norm THEN <<"scaler.unscale_", "clip_grad_norm_">> ELSE <<>>)
              \o <<"scaler.step", "scaler.update">>
    ELSE (IF a.grad_clip_norm THEN <<"clip_grad_norm_">> ELSE <<>>)
         \o <<"optimizer.step">>

\* lines 171-188: scaler.step(optimizer) or optimizer.step(); the update may
\* leave any value in logit_scale
OptimizerStep ==
    /\ pc = "step"
    /\ \E v \in ScaleValues : model' = WithLogitScale(model, v)
    /\ steps' = Append(steps, [at |-> i, grads |-> grads, calls |-> StepCalls(args)])
    /\ pc' = "reset"
    /\ UNCHANGED <<args, num_batches, i, j, accum_images, accum_texts,
                   accum_features, grads, seen_scales>>
    /\ UNCHANGED notTrain

\* lines 190-192: reset gradient accum, if enabled
ResetAccum ==
    /\ pc = "reset"
    /\ IF args.accum_freq > 1
       THEN /\ accum_images' = ResetCache(accum_images)
            /\ accum_texts' = ResetCache(accum_texts)
            /\ accum_features' = ResetCache(accum_features)
       ELSE UNCHANGED <<accum_images, accum_texts, accum_features>>
    /\ pc' = "clamp"
    /\ UNCHANGED <<args, num_batches, i, j, model, grads, steps, seen_scales>>
    /\ UNCHANGED notTrain

\* lines 194-254: clamp logit_scale, log, end of the iteration
ClampAndLog ==
    /\ pc = "clamp"
    /\ model' = WithLogitScale(model, Clamp(unwrap_model(model).logit_scale))
    /\ i' = i + 1
    /\ pc' = "loop"
    /\ UNCHANGED <<args, num_batches, j, accum_images, accum_texts,
                   accum_features, grads, steps, seen_scales>>
    /\ UNCHANGED notTrain

\* line 255: the dataloader is exhausted
EndEpoch ==
    /\ pc = "loop"
    /\ i >= num_batches
    /\ pc' = "epoch_done"
    /\ UNCHANGED trainVars
    /\ UNCHANGED notTrain

TrainNext ==
    \/ NextBatch
    \/ ForwardSingle
    \/ ForwardCache
    \/ AccumBackward
    \/ AccumDone
    \/ OptimizerStep
    \/ ResetAccum
    \/ ClampAndLog
    \/ EndEpoch


(***************************************************************************)
(* C1: with accum_freq = k > 1 the optimizer is stepped exactly at the     *)
(* batches i with (i + 1) % k = 0 (the s-th step at batch s * k - 1, and   *)
(* i \div k steps are done when batch i starts), hence num_batches \div k  *)
(* times in the epoch; the gradients of a step are those of exactly k      *)
(* backward calls, one for each of the k batches cached since the previous *)
(* step; and the three caches are empty right after the step's reset.      *)
(***************************************************************************)
C1_StepEveryKBatches ==
    args.accum_freq > 1 =>
        LET k == args.accum_freq IN
        /\ \A s \in 1..Len(steps) :
              /\ (steps[s].at + 1) % k = 0
              /\ steps[s].at = s * k - 1
              /\ steps[s].grads = [n \in 1..k |-> steps[s].at - k + n]
        /\ pc \in {"loop", "forward"} => Len(steps) = i \div k
        /\ pc = "epoch_done" => Len(steps) = num_batches \div k
        /\ pc = "clamp" =>
              /\ accum_images = <<>>
              /\ accum_texts = <<>>
              /\ accum_features = <<>>

\* an epoch of 5 batches with accum_freq 2 has ended after 2 steps, the fifth
\* batch cached and never stepped
C1_Witness ==
    /\ pc = "epoch_done"
    /\ args.accum_freq = 2
    /\ num_batches = 5
    /\ Len(steps) = 2
    /\ Len(accum_images) = 1

(***************************************************************************)
(* C7: every forward pass that runs after the first optimizer step         *)
(* (scaler.step or optimizer.step) sees a logit_scale within               *)
(* [0, ln(100)], for every accum_freq, with or without a gradient scaler.  *)
(***************************************************************************)
C7_ForwardSeesClampedScale ==
    \A v \in seen_scales : 0 <= v /\ v <= LnHundred

\* forward passes have run after steps, with a scaler and accumulation, and
\* saw both ends of the range
C7_Witness ==
    /\ args.accum_freq > 1
    /\ args.scaler
    /\ Len(steps) >= 2
    /\ {0, LnHundred} \subseteq seen_scales

(***************************************************************************)
(* generated_images_first/ord.py                                           *)
(***************************************************************************)
ImagePrefix == <<"i", "m", "a", "g", "e", "_">>

Png == <<".", "p", "n", "g">>

\* line 13: the width of the format {num:03d}
PadWidth == 3

\* file names a directory of the model may hold
OrdNames ==
    { ImagePrefix \o <<"1">> \o Png,
      ImagePrefix \o <<"0", "1">> \o Png,
      ImagePrefix \o <<"0", "0", "1">> \o Png,
      ImagePrefix \o <<"1", "_", "a", " ", "b">> \o Png,
      ImagePrefix \o <<"1", "2", ".", "j", "p", "g">>,
      ImagePrefix \o <<"1", "0", "0", "0">> \o Png,
      ImagePrefix \o <<"0", "0", "0", "7">>,
      ImagePrefix \o <<"2", ".", "t", "a", "r", ".", "g", "z">>,
      ImagePrefix \o <<"x">> \o Png,
      <<"x">> \o ImagePrefix \o <<"3">> \o Png,
      <<"o", "r", "d", ".", "p", "y">> }

\* re.match(r'image_(\d+)', name): group(1), or <<>> when there is no match
MatchImageNumber(name) ==
    IF StartsWithAt(name, ImagePrefix, 1) THEN DigitRun(name, Len(ImagePrefix) + 1) ELSE <<>>

\* re.search(r'image_(\d+)', name): group(1) of the leftmost match, or <<>>
SearchImageNumber(name) ==
    LET hits == {q \in 1..Len(name) :
                    /\ StartsWithAt(name, ImagePrefix, q)
                    /\ DigitRun(name, q + Len(ImagePrefix)) # <<>>}
    IN  IF hits = {} THEN <<>>
        ELSE LET q == CHOOSE h \in hits : \A g \in hits : h <= g
             IN  DigitRun(name, q + Len(ImagePrefix))

\* line 5: the sort key: <<0, n>> for int(...), <<1, 0>> for float('inf')
SortKey(name) ==
    IF SearchImageNumber(name) # <<>> THEN <<0, ParseInt(SearchImageNumber(name))>> ELSE <<1, 0>>

KeyLeq(a, b) == a[1] < b[1] \/ (a[1] = b[1] /\ a[2] <= b[2])

\* line 5: sorted(os.listdir(), key=...): os.listdir() lists in any order and
\* sorted() is stable, so every listing in key order is possible
SortedListings(names) ==
    {f \in Listings(names) :
        \A a, b \in 1..Len(f) : a < b => KeyLeq(SortKey(f[a]), SortKey(f[b]))}

\* os.path.splitext(p): <<root, ext>>
SplitExt(p) ==
    LET dot == LastIndexOf(p, ".")
        sep == LastIndexOf(p, "/")
    IN  IF dot > sep /\ \E q \in (sep + 1)..(dot - 1) : p[q] # "."
        THEN <<SubSeq(p, 1, dot - 1), SubSeq(p, dot, Len(p))>>
        ELSE <<p, <<>>>>

\* f"{num:03d}"
RECURSIVE ZeroPad(_, _)
ZeroPad(s, width) == IF Len(s) >= width THEN s ELSE ZeroPad(<<"0">> \o s, width)

\* lines 11-13: the new name of a file that matches
NewNameNoPad(file) ==
    ImagePrefix \o IntToStr(ParseInt(MatchImageNumber(file))) \o SplitExt(file)[2]

NewName(file) ==
    ImagePrefix \o ZeroPad(IntToStr(ParseInt(MatchImageNumber(file))), PadWidth)
                \o SplitExt(file)[2]

\* os.rename(src, dst) on the directory d, where src exists
Rename(d, src, dst) ==
    [n \in (DOMAIN d \ {src}) \cup {dst} |-> IF n = dst THEN d[src] ELSE d[n]]

OrdIdle ==
    /\ dir = <<>>
    /\ posix = TRUE
    /\ file_list = <<>>
    /\ pos = 1
    /\ run = 1
    /\ renamed = {}
    /\ listed = {}

OrdInit ==
    /\ pc = "ord_loop"
    /\ \E names \in SubsetsUpTo(OrdNames, MaxFiles) :
          /\ dir = [n \in names |-> n]
          /\ listed = names
          /\ file_list \in SortedListings(names)
    /\ posix \in BOOLEAN
    /\ pos = 1
    /\ run = 1
    /\ renamed = {}

\* lines 8-17: one turn of the for loop
OrdRenameStep ==
    /\ pc = "ord_loop"
    /\ pos <= Len(file_list)
    /\ LET file == file_list[pos]
           new_name == NewName(file)
       IN  IF MatchImageNumber(file) # <<>> /\ file # new_name
           THEN IF file \notin DOMAIN dir \/ (new_name \in DOMAIN dir /\ ~posix)
                THEN \* FileNotFoundError, or FileExistsError where os.rename
                     \* does not replace
                     /\ pc' = "ord_error"
                     /\ UNCHANGED <<dir, renamed, pos>>
                ELSE /\ dir' = Rename(dir, file, new_name)
                     /\ renamed' = renamed \cup {[run |-> run, from |-> file, to |-> new_name]}
                     /\ pos' = pos + 1
                     /\ pc' = pc
           ELSE /\ pos' = pos + 1
                /\ UNCHANGED <<pc, dir, renamed>>
    /\ UNCHANGED <<posix, file_list, run, listed>>
    /\ UNCHANGED notOrd

\* the first run has ended and the script is run again: line 5 of the second run
OrdRunAgain ==
    /\ pc = "ord_loop"
    /\ pos > Len(file_list)
    /\ run = 1
    /\ run' = 2
    /\ file_list' \in SortedListings(DOMAIN dir)
    /\ pos' = 1
    /\ UNCHANGED <<pc, dir, posix, renamed, listed>>
    /\ UNCHANGED notOrd

\* the second run has ended
OrdFinish ==
    /\ pc = "ord_loop"
    /\ pos > Len(file_list)
    /\ run = 2
    /\ pc' = "ord_done"
    /\ UNCHANGED ordVars
    /\ UNCHANGED notOrd

OrdNext ==
    \/ OrdRenameStep
    \/ OrdRunAgain
    \/ OrdFinish


(***************************************************************************)
(* C2, as claimed: after one run every file whose name begins with         *)
(* 'image_<digits>' of value n is named 'image_' + n zero-padded to at     *)
(* least 3 digits + its extension; a file whose name has that form is not  *)
(* renamed; every other file keeps its name; a second run renames nothing. *)
(***************************************************************************)
C2_Matches(f) ==
    /\ Len(f) > Len(ImagePrefix)
    /\ SubSeq(f, 1, Len(ImagePrefix)) = ImagePrefix
    /\ IsDigit(f[Len(ImagePrefix) + 1])

C2_Padded(n) ==
    IF n < 10 THEN <<"0", "0">> \o IntToStr(n)
    ELSE IF n < 100 THEN <<"0">> \o IntToStr(n)
    ELSE IntToStr(n)

C2_Form(f) ==
    ImagePrefix \o C2_Padded(ParseInt(DigitRun(f, Len(ImagePrefix) + 1))) \o SplitExt(f)[2]

C2_AfterFirstRun == pc = "ord_loop" /\ run = 1 /\ pos > Len(file_list)

C2_EveryFileNamed ==
    C2_AfterFirstRun =>
        \A f \in listed : C2_Matches(f) => C2_Form(f) \in DOMAIN dir /\ dir[C2_Form(f)] = f

C2_FormNotRenamed ==
    \A f \in listed : C2_Matches(f) /\ f = C2_Form(f) => \A r \in renamed : r.from # f

C2_OthersKeepName ==
    \A f \in listed : ~C2_Matches(f) => f \in DOMAIN dir /\ dir[f] = f

C2_SecondRunRenamesNothing ==
    \A r \in renamed : r.run = 1

C2_AsClaimed ==
    /\ C2_EveryFileNamed
    /\ C2_FormNotRenamed
    /\ C2_OthersKeepName
    /\ C2_SecondRunRenamesNothing

(***************************************************************************)
(* C2, amended: the first and the last part hold when no two of the files  *)
(* 'image_<digits>...' have the same value n and the same extension (two   *)
(* such files are given the same new name, and one of them replaces the    *)
(* other or the script stops with FileExistsError); the other two parts    *)
(* hold for every directory.                                               *)
(***************************************************************************)
C2_NoClash ==
    \A f, g \in listed : C2_Matches(f) /\ C2_Matches(g) /\ f # g => C2_Form(f) # C2_Form(g)

C2_RenamedToPaddedForm ==
    /\ C2_NoClash => C2_EveryFileNamed /\ C2_SecondRunRenamesNothing /\ pc # "ord_error"
    /\ C2_FormNotRenamed
    /\ C2_OthersKeepName

\* both runs are over in a directory without clash that held a file to
\* rename, a file whose name had the form already and a file of another name
C2_Witness ==
    /\ pc = "ord_done"
    /\ C2_NoClash
    /\ \E r \in renamed : r.run = 1 /\ r.to \in DOMAIN dir
    /\ \E f \in listed : C2_Matches(f) /\ f = C2_Form(f)
    /\ \E f \in listed : ~C2_Matches(f)

(***************************************************************************)
(* generate_csv.py                                                         *)
(***************************************************************************)
\* lines 6-7: the image folders
image_folders == <<"/work/project/Group10-ELIAS-ELLIS-VISMAC/generated_images_first">>

NotAvailable == <<"N", "/", "A">>

\* lines the prompt file of the model may hold
CsvLines ==
    { <<"a", " ", "b", "\n">>,
      <<" ", "c", "\t", "\n">>,
      <<" ", "\n">>,
      <<"k", ":", " ", "v", "\n">> }

\* file names the image folder of the model may hold
CsvNames ==
    { ImagePrefix \o <<"0", "0", "2">> \o Png,
      ImagePrefix \o <<"0", "1", "0">> \o Png,
      ImagePrefix \o <<"2", "0", "0">> \o Png,
      ImagePrefix \o <<"1", "0", "0", "0">> \o Png,
      ImagePrefix \o <<"2", "_", "b">> \o Png,
      ImagePrefix \o <<"2", "_", "_", "b">> \o Png,
      ImagePrefix \o <<"1", "0", "_", "a">> \o Png,
      <<"o", "r", "d", ".", "p", "y">>,
      <<"1", "_", "x">> }

\* line 16: the lines kept
KeepLineAnyText(line) == line # <<>>

KeepLine(line) == line # <<>> /\ ~Contains(line, ":")

\* lines 13-17: the prompts of the file
RECURSIVE ReadPrompts(_)
ReadPrompts(lines) ==
    IF lines = <<>> THEN <<>>
    ELSE LET line == Strip(lines[1])
         IN  (IF KeepLine(line) THEN <<line>> ELSE <<>>) \o ReadPrompts(Tail(lines))

\* str.isdigit() for the ASCII characters of the model
AllDigits(t) == t # <<>> /\ \A q \in 1..Len(t) : IsDigit(t[q])

\* line 23: natural_sort_key: <<"int", n>> for int(t), <<"str", t>> for t
SortToken(t) == IF AllDigits(t) THEN <<"int", ParseInt(t)>> ELSE <<"str", t>>

RECURSIVE SortTokens(_)
SortTokens(ts) ==
    IF ts = <<>> THEN <<>>
    ELSE (IF ts[1] # <<>> THEN <<SortToken(ts[1])>> ELSE <<>>) \o SortTokens(Tail(ts))

natural_sort_key(s) == SortTokens(SplitOn(s, "_"))

\* the comparison a < b of two keys, as Python compares lists: "lt", "ge",
\* or "TypeError" when the first elements that differ are an int and a str
RECURSIVE KeyCompare(_, _)
KeyCompare(a, b) ==
    IF b = <<>> THEN "ge"
    ELSE IF a = <<>> THEN "lt"
    ELSE IF a[1] = b[1] THEN KeyCompare(Tail(a), Tail(b))
    ELSE IF a[1][1] # b[1][1] THEN "TypeError"
    ELSE IF a[1][1] = "int" THEN (IF a[1][2] < b[1][2] THEN "lt" ELSE "ge")
    ELSE (IF StrLess(a[1][2], b[1][2]) THEN "lt" ELSE "ge")

\* sorted() raises when it compares an int with a str
SortRaises(l) ==
    \E a, b \in 1..Len(l) :
        a # b /\ KeyCompare(natural_sort_key(l[a]), natural_sort_key(l[b])) = "TypeError"

\* the stable insertion of x into the sorted list l: after the last element
\* that is not greater
RECURSIVE InsertSorted(_, _)
InsertSorted(l, x) ==
    IF l = <<>> THEN <<x>>
    ELSE IF KeyCompare(natural_sort_key(x), natural_sort_key(l[Len(l)])) = "lt"
         THEN InsertSorted(SubSeq(l, 1, Len(l) - 1), x) \o <<l[Len(l)]>>
         ELSE l \o <<x>>

\* line 29: sorted(l, key=natural_sort_key), a stable sort
RECURSIVE SortedNatural(_)
SortedNatural(l) ==
    IF l = <<>> THEN <<>>
    ELSE InsertSorted(SortedNatural(SubSeq(l, 1, Len(l) - 1)), l[Len(l)])

\* os.path.join(a, b) of a folder (a string) and a file name: the folder, the
\* separator and the name
OsPathJoin(a, b) == <<a, "/", b>>

\* lines 30-34: the cell of row idx (from 0) for a folder with the sorted
\* listing image_files
Cell(folder, image_files, idx) ==
    IF idx < Len(image_files) THEN OsPathJoin(folder, image_files[idx + 1]) ELSE NotAvailable

\* what os.listdir may return for every folder: the files in any order
FolderListings ==
    {ls \in [DOMAIN image_folders ->
                UNION {Listings(folder_files[image_folders[k]]) : k \in DOMAIN image_folders}] :
        \A k \in DOMAIN image_folders : ls[k] \in Listings(folder_files[image_folders[k]])}

CsvIdle ==
    /\ prompt_file = <<>>
    /\ folder_files = <<>>
    /\ prompts = <<>>
    /\ csv_data = <<>>
    /\ csv_out = <<>>

CsvInit ==
    /\ pc = "csv_read"
    /\ prompt_file \in UNION {[1..n -> CsvLines] : n \in 0..MaxLines}
    /\ folder_files \in [{image_folders[k] : k \in DOMAIN image_folders} ->
                            SubsetsUpTo(CsvNames, MaxListing)]
    /\ prompts = <<>>
    /\ csv_data = <<>>
    /\ csv_out = <<>>

\* lines 13-17
CsvReadPrompts ==
    /\ pc = "csv_read"
    /\ prompts' = ReadPrompts(prompt_file)
    /\ pc' = "csv_rows"
    /\ UNCHANGED <<prompt_file, folder_files, csv_data, csv_out>>
    /\ UNCHANGED notCsv

\* lines 25-35: one turn of the outer loop, the row of prompt Len(csv_data)
CsvRow ==
    /\ pc = "csv_rows"
    /\ Len(csv_data) < Len(prompts)
    /\ \E ls \in FolderListings :
          IF \E k \in DOMAIN image_folders : SortRaises(ls[k])
          THEN /\ pc' = "csv_error"
               /\ UNCHANGED csv_data
          ELSE /\ csv_data' = Append(csv_data,
                      <<prompts[Len(csv_data) + 1]>> \o
                      [k \in DOMAIN image_folders |->
                          Cell(image_folders[k], SortedNatural(ls[k]), Len(csv_data))])
               /\ pc' = pc
    /\ UNCHANGED <<prompt_file, folder_files, prompts, csv_out>>
    /\ UNCHANGED notCsv

\* lines 38-47: the header and the rows are written
CsvWrite ==
    /\ pc = "csv_rows"
    /\ Len(csv_data) >= Len(prompts)
    /\ csv_out' = <<(<<"Prompt">> \o image_folders)>> \o csv_data
    /\ pc' = "csv_done"
    /\ UNCHANGED <<prompt_file, folder_files, prompts, csv_data>>
    /\ UNCHANGED notCsv

CsvNext ==
    \/ CsvReadPrompts
    \/ CsvRow
    \/ CsvWrite

(***************************************************************************)
(* C3: the CSV file holds the header row ['Prompt'] + image_folders and    *)
(* then exactly one row per line of the prompt file that is non-empty      *)
(* after stripping and holds no ':', in file order; every data row has     *)
(* 1 + len(image_folders) cells, and the cell of a folder in the row of    *)
(* the i-th kept prompt is the path of the i-th entry of the folder's      *)
(* sorted listing when the folder has more than i entries, else 'N/A'.     *)
(***************************************************************************)
C3_KeptLines ==
    SelectSeq([q \in 1..Len(prompt_file) |-> Strip(prompt_file[q])],
              LAMBDA l : Len(l) > 0 /\ \A r \in 1..Len(l) : l[r] # ":")

\* the listings of a set of files in the order of natural_sort_key
C3_SortedListings(files) ==
    {l \in Listings(files) :
        \A a, b \in 1..Len(l) :
            a < b => KeyCompare(natural_sort_key(l[b]), natural_sort_key(l[a])) # "lt"}

C3_RowsOfKeptPrompts ==
    pc = "csv_done" =>
        /\ Len(csv_out) = 1 + Len(C3_KeptLines)
        /\ csv_out[1] = <<"Prompt">> \o image_folders
        /\ \A q \in 1..Len(C3_KeptLines) :
              /\ Len(csv_out[q + 1]) = 1 + Len(image_folders)
              /\ csv_out[q + 1][1] = C3_KeptLines[q]
              /\ \A k \in 1..Len(image_folders) :
                    LET files == folder_files[image_folders[k]]
                        cell == csv_out[q + 1][k + 1]
                    IN  IF Cardinality(files) > q - 1
                        THEN \E l \in C3_SortedListings(files) :
                                cell = <<image_folders[k], "/", l[q]>>
                        ELSE cell = <<"N", "/", "A">>

\* a file written with three data rows, the first with an image and the last
\* with 'N/A', from a prompt file that also held a line with ':'
C3_Witness ==
    /\ pc = "csv_done"
    /\ Len(csv_out) = 3
    /\ Len(prompt_file) = 3
    /\ \E q \in 1..Len(prompt_file) : Contains(prompt_file[q], ":")
    /\ csv_out[2][2] # NotAvailable
    /\ csv_out[3][2] = NotAvailable

(***************************************************************************)
(* C4, as claimed: for a folder that holds only files image_<n>_<text>.png *)
(* with distinct n, or only files image_<n zero-padded to 3 digits>.png,   *)
(* the i-th kept prompt is paired with the file of the i-th smallest n.    *)
(***************************************************************************)
C4_Number(f) == ParseInt(DigitRun(f, Len(ImagePrefix) + 1))

C4_EndsWithPng(f) == Len(f) >= Len(Png) /\ SubSeq(f, Len(f) - Len(Png) + 1, Len(f)) = Png

\* image_<n>_<text>.png
C4_GeneratedName(f) ==
    LET d == DigitRun(f, Len(ImagePrefix) + 1) IN
    /\ StartsWithAt(f, ImagePrefix, 1)
    /\ d # <<>>
    /\ Len(f) > Len(ImagePrefix) + Len(d) + 1 + Len(Png)
    /\ f[Len(ImagePrefix) + Len(d) + 1] = "_"
    /\ C4_EndsWithPng(f)

\* image_<n zero-padded to 3 digits>.png, as ord.py names a file
C4_OrdName(f) ==
    /\ StartsWithAt(f, ImagePrefix, 1)
    /\ DigitRun(f, Len(ImagePrefix) + 1) # <<>>
    /\ f = ImagePrefix \o ZeroPad(IntToStr(C4_Number(f)), PadWidth) \o Png

C4_PairedInNumberOrder(files, k) ==
    \A q \in 1..Len(prompts) :
        q <= Cardinality(files) =>
            \E f \in files :
                /\ csv_out[q + 1][k + 1] = <<image_folders[k], "/", f>>
                /\ Cardinality({g \in files : C4_Number(g) < C4_Number(f)}) = q - 1

C4_GeneratedNamesInOrder ==
    pc = "csv_done" =>
        \A k \in 1..Len(image_folders) :
            LET files == folder_files[image_folders[k]] IN
            (/\ \A f \in files : C4_GeneratedName(f)
             /\ \A f, g \in files : f # g => C4_Number(f) # C4_Number(g))
                => C4_PairedInNumberOrder(files, k)

C4_OrdNamesInOrder ==
    pc = "csv_done" =>
        \A k \in 1..Len(image_folders) :
            LET files == folder_files[image_folders[k]] IN
            (\A f \in files : C4_OrdName(f)) => C4_PairedInNumberOrder(files, k)

C4_AsClaimed == C4_GeneratedNamesInOrder /\ C4_OrdNamesInOrder

(***************************************************************************)
(* generate_imgs.py                                                        *)
(***************************************************************************)
\* line 28: the file name takes the first 100 characters of the prompt
NameCut == 100

\* line 8
output_folder == <<"g", "e", "n", "e", "r", "a", "t", "e", "d", "_", "i", "m", "a", "g", "e", "s">>

\* lines the prompt file of the model may hold; the last two are longer than
\* NameCut and differ after the cut only
ImgsLines ==
    { <<"a", " ", "b", "\n">>,
      <<" ", "a", "\t", " ", "b", " ", "\n">>,
      <<" ", "\n">>,
      <<"k", ":", "v", "\n">>,
      Repeat("z", NameCut) \o <<"a", "\n">>,
      Repeat("z", NameCut) \o <<"b", "\n">> }

\* lines 18-19: [line.strip() for line in f.readlines() if line.strip()]
RECURSIVE NonEmptyLines(_)
NonEmptyLines(lines) ==
    IF lines = <<>> THEN <<>>
    ELSE (IF Strip(lines[1]) # <<>> THEN <<Strip(lines[1])>> ELSE <<>>)
         \o NonEmptyLines(Tail(lines))

\* line 28: "_".join(prompt.split())[:100]
Sanitize(prompt) == Take(Join(SplitWhitespace(prompt), <<"_">>), NameCut)

\* line 29: f"image_{i+1}_{sanitized_prompt}.png", idx from 0
ImageNameNoIndex(idx, prompt) == ImagePrefix \o Sanitize(prompt) \o Png

ImageName(idx, prompt) ==
    ImagePrefix \o IntToStr(idx + 1) \o <<"_">> \o Sanitize(prompt) \o Png

ImgsIdle ==
    /\ imgs_file = <<>>
    /\ imgs_prompts = <<>>
    /\ imgs_i = 0
    /\ imgs_written = {}
    /\ imgs_attempts = <<>>

ImgsInit ==
    /\ pc = "imgs_read"
    /\ imgs_file \in UNION {[1..n -> ImgsLines] : n \in 0..MaxLines}
    /\ imgs_prompts = <<>>
    /\ imgs_i = 0
    /\ imgs_written = {}
    /\ imgs_attempts = <<>>

\* lines 18-19
ImgsReadPrompts ==
    /\ pc = "imgs_read"
    /\ imgs_prompts' = NonEmptyLines(imgs_file)
    /\ pc' = "imgs_loop"
    /\ UNCHANGED <<imgs_file, imgs_i, imgs_written, imgs_attempts>>
    /\ UNCHANGED notImgs

\* lines 22-32: one turn of the loop: the pipeline or the save may raise, the
\* exception is caught and printed
ImgsGenerate ==
    /\ pc = "imgs_loop"
    /\ imgs_i < Len(imgs_prompts)
    /\ \E outcome \in {"saved", "pipeline raised", "save raised"} :
          /\ imgs_written' =
                IF outcome = "saved"
                THEN imgs_written \cup
                        {OsPathJoin(output_folder, ImageName(imgs_i, imgs_prompts[imgs_i + 1]))}
                ELSE imgs_written
          /\ imgs_attempts' = Append(imgs_attempts, [i |-> imgs_i, outcome |-> outcome])
    /\ imgs_i' = imgs_i + 1
    /\ UNCHANGED <<pc, imgs_file, imgs_prompts>>
    /\ UNCHANGED notImgs

\* the loop of line 22 is exhausted
ImgsFinish ==
    /\ pc = "imgs_loop"
    /\ imgs_i >= Len(imgs_prompts)
    /\ pc' = "imgs_done"
    /\ UNCHANGED imgsVars
    /\ UNCHANGED notImgs

ImgsNext ==
    \/ ImgsReadPrompts
    \/ ImgsGenerate
    \/ ImgsFinish

(***************************************************************************)
(* C5: every non-empty prompt line is attempted exactly once, in file      *)
(* order, whatever happened to the prompts before it; the files written    *)
(* are exactly image_{i+1}_<prompt with the runs of whitespace replaced by *)
(* '_', cut to 100 characters>.png of the prompts i that succeeded, and no *)
(* two prompts write the same path.                                        *)
(***************************************************************************)
\* the prompt with every run of whitespace replaced by one '_'
C5_ReplaceRuns(s) ==
    LET kept == SelectSeq([q \in 1..Len(s) |-> q],
                          LAMBDA q : ~IsSpace(s[q]) \/ q = Len(s) \/ ~IsSpace(s[q + 1]))
    IN  [r \in 1..Len(kept) |-> IF IsSpace(s[kept[r]]) THEN "_" ELSE s[kept[r]]]

C5_NonEmpty ==
    SelectSeq([q \in 1..Len(imgs_file) |-> Strip(imgs_file[q])], LAMBDA l : Len(l) > 0)

C5_Path(idx) ==
    LET r == C5_ReplaceRuns(C5_NonEmpty[idx + 1])
        cut == IF Len(r) > 100 THEN SubSeq(r, 1, 100) ELSE r
    IN  <<output_folder, "/", ImagePrefix \o IntToStr(idx + 1) \o <<"_">> \o cut \o Png>>

C5_EveryPromptAttemptedOnce ==
    pc # "imgs_read" =>
        /\ \A q \in 1..Len(imgs_attempts) : imgs_attempts[q].i = q - 1
        /\ Len(imgs_attempts) = imgs_i
        /\ Len(imgs_attempts) <= Len(C5_NonEmpty)
        /\ pc = "imgs_done" => Len(imgs_attempts) = Len(C5_NonEmpty)
        /\ imgs_written = {C5_Path(imgs_attempts[q].i) :
                              q \in {r \in 1..Len(imgs_attempts) : imgs_attempts[r].outcome = "saved"}}
        /\ \A q, r \in 1..Len(imgs_attempts) :
              (/\ q # r
               /\ imgs_attempts[q].outcome = "saved"
               /\ imgs_attempts[r].outcome = "saved")
                  => C5_Path(imgs_attempts[q].i) # C5_Path(imgs_attempts[r].i)

\* the loop has ended: the first prompt raised, the two after it were saved,
\* and they are the same after the cut to 100 characters
C5_Witness ==
    /\ pc = "imgs_done"
    /\ Len(imgs_attempts) = 3
    /\ imgs_attempts[1].outcome # "saved"
    /\ imgs_attempts[2].outcome = "saved"
    /\ imgs_attempts[3].outcome = "saved"
    /\ imgs_prompts[2] # imgs_prompts[3]
    /\ Len(imgs_prompts[2]) > NameCut
    /\ Sanitize(imgs_prompts[2]) = Sanitize(imgs_prompts[3])
    /\ Cardinality(imgs_written) = 2

(***************************************************************************)
(* generated_imgs.py                                                       *)
(***************************************************************************)
\* line 13: range(15)
NumFolders == 15

\* line 14: j + 100
FirstFolder == 100

\* line 25: (j + 1) * 1000
SeedStep == 1000

\* line 14: "generated_images" + str(j + 100)
OutputFolder(jj) == output_folder \o IntToStr(jj + FirstFolder)

\* line 25
Seed(jj) == (jj + 1) * SeedStep

GenIdle ==
    /\ gen_file = <<>>
    /\ gen_prompts = <<>>
    /\ gen_j = 0
    /\ gen_i = 0
    /\ gen_folders = {}
    /\ gen_saved = {}

GenInit ==
    /\ pc = "gen_read"
    /\ gen_file \in UNION {[1..n -> ImgsLines] : n \in 0..MaxLines}
    /\ gen_prompts = <<>>
    /\ gen_j = 0
    /\ gen_i = 0
    /\ gen_folders = {}
    /\ gen_saved = {}

\* lines 10-11
GenReadPrompts ==
    /\ pc = "gen_read"
    /\ gen_prompts' = NonEmptyLines(gen_file)
    /\ pc' = "gen_folders"
    /\ UNCHANGED <<gen_file, gen_j, gen_i, gen_folders, gen_saved>>
    /\ UNCHANGED notGen

\* lines 13-15: the next output folder is made
GenMakeFolder ==
    /\ pc = "gen_folders"
    /\ gen_j < NumFolders
    /\ gen_folders' = gen_folders \cup {OutputFolder(gen_j)}
    /\ gen_i' = 0
    /\ pc' = "gen_prompts"
    /\ UNCHANGED <<gen_file, gen_prompts, gen_j, gen_saved>>
    /\ UNCHANGED notGen

\* lines 16-32: one turn of the inner loop: a prompt with ':' is skipped; for
\* another one the image is generated and saved and the script exits
\* (line 32), unless the pipeline or the save raises
GenPrompt ==
    /\ pc = "gen_prompts"
    /\ gen_i < Len(gen_prompts)
    /\ IF ~Contains(gen_prompts[gen_i + 1], ":")
       THEN \E fails \in BOOLEAN :
               IF fails
               THEN /\ pc' = "gen_error"
                    /\ UNCHANGED <<gen_saved, gen_i>>
               ELSE /\ gen_saved' = gen_saved \cup
                          {[folder |-> OutputFolder(gen_j),
                            name |-> ImageName(gen_i, gen_prompts[gen_i + 1]),
                            seed |-> Seed(gen_j)]}
                    /\ pc' = "gen_exit"
                    /\ UNCHANGED gen_i
       ELSE /\ gen_i' = gen_i + 1
            /\ UNCHANGED <<pc, gen_saved>>
    /\ UNCHANGED <<gen_file, gen_prompts, gen_j, gen_folders>>
    /\ UNCHANGED notGen

\* the inner loop of line 16 is exhausted
GenFolderDone ==
    /\ pc = "gen_prompts"
    /\ gen_i >= Len(gen_prompts)
    /\ gen_j' = gen_j + 1
    /\ pc' = "gen_folders"
    /\ UNCHANGED <<gen_file, gen_prompts, gen_i, gen_folders, gen_saved>>
    /\ UNCHANGED notGen

\* the outer loop of line 13 is exhausted
GenFinish ==
    /\ pc = "gen_folders"
    /\ gen_j >= NumFolders
    /\ pc' = "gen_exit"
    /\ UNCHANGED genVars
    /\ UNCHANGED notGen

GenNext ==
    \/ GenReadPrompts
    \/ GenMakeFolder
    \/ GenPrompt
    \/ GenFolderDone
    \/ GenFinish

(***************************************************************************)
(* C6, as claimed: when the script has ended, each of the 15 folders       *)
(* generated_images100 .. generated_images114 (j = 0..14) holds one image  *)
(* for every prompt without ':', named image_{i+1}_<sanitized prompt>.png  *)
(* with i the position of the line among the non-empty lines, generated    *)
(* with seed (j + 1) * 1000.                                               *)
(***************************************************************************)
C6_NonEmpty ==
    SelectSeq([q \in 1..Len(gen_file) |-> Strip(gen_file[q])], LAMBDA l : Len(l) > 0)

C6_Expected ==
    {[folder |-> output_folder \o IntToStr(100 + jj),
      name |-> ImagePrefix \o IntToStr(q) \o <<"_">> \o Sanitize(C6_NonEmpty[q]) \o Png,
      seed |-> (jj + 1) * 1000] :
        jj \in 0..14, q \in {r \in 1..Len(C6_NonEmpty) : ~Contains(C6_NonEmpty[r], ":")}}

C6_AsClaimed == pc = "gen_exit" => gen_saved = C6_Expected

(***************************************************************************)
(* train.py : AverageMeter                                                 *)
(***************************************************************************)
\* values of val the model passes to update
MeterValues == {-1, 0, 3}

\* line 44: self.sum += val * n
UpdatedSumIgnoresN(s, v, n) == s + v

UpdatedSum(s, v, n) == s + v * n

MeterIdle ==
    /\ val = 0
    /\ avg = <<0, 1>>
    /\ sum = 0
    /\ count = 0
    /\ raised = FALSE
    /\ updates = <<>>

\* lines 33-40: __init__ calls reset()
MeterInit ==
    /\ pc = "meter"
    /\ val = 0
    /\ avg = <<0, 1>>
    /\ sum = 0
    /\ count = 0
    /\ raised = FALSE
    /\ updates = <<>>

\* lines 36-40
Reset ==
    /\ pc = "meter"
    /\ val' = 0
    /\ avg' = <<0, 1>>
    /\ sum' = 0
    /\ count' = 0
    /\ raised' = FALSE
    /\ updates' = <<>>
    /\ UNCHANGED pc
    /\ UNCHANGED notMeter

\* lines 42-46: line 46 divides by self.count and raises ZeroDivisionError
\* when it is 0, after lines 43-45 have assigned val, sum and count
Update ==
    /\ pc = "meter"
    /\ Len(updates) < MaxUpdates
    /\ \E v \in MeterValues, n \in 0..MaxWeight :
          /\ val' = v
          /\ sum' = UpdatedSum(sum, v, n)
          /\ count' = count + n
          /\ IF count + n = 0
             THEN /\ raised' = TRUE
                  /\ UNCHANGED avg
             ELSE /\ raised' = FALSE
                  /\ avg' = <<UpdatedSum(sum, v, n), count + n>>
          /\ updates' = Append(updates, [val |-> v, n |-> n])
    /\ UNCHANGED pc
    /\ UNCHANGED notMeter

MeterNext ==
    \/ Reset
    \/ Update

(***************************************************************************)
(* C8, as claimed: after any sequence of reset() and update(val, n) calls, *)
(* val is the value of the last update since the last reset, sum the sum   *)
(* of val * n and count the sum of n over these updates, and               *)
(* avg == sum / count; after reset() all four are 0; for every n, n = 0    *)
(* included.                                                               *)
(***************************************************************************)
RECURSIVE C8_SumOver(_, _)
C8_SumOver(us, weighted) ==
    IF us = <<>> THEN 0
    ELSE (IF weighted THEN us[1].val * us[1].n ELSE us[1].n) + C8_SumOver(Tail(us), weighted)

C8_Fields ==
    IF updates = <<>>
    THEN val = 0 /\ avg[1] = 0 /\ sum = 0 /\ count = 0
    ELSE /\ val = updates[Len(updates)].val
         /\ sum = C8_SumOver(updates, TRUE)
         /\ count = C8_SumOver(updates, FALSE)

C8_AvgIsSumOverCount == count # 0 /\ avg[1] * count = sum * avg[2]

C8_AsClaimed ==
    /\ C8_Fields
    /\ updates # <<>> => ~raised /\ C8_AvgIsSumOverCount

(***************************************************************************)
(* C8, amended: val, sum and count are as claimed for every n; avg is      *)
(* sum / count whenever count is not 0; an update that leaves count at 0   *)
(* (n = 0 and no weight since the last reset) raises ZeroDivisionError     *)
(* after val, sum and count were assigned, and avg stays 0.                *)
(***************************************************************************)
C8_AverageWhenCounted ==
    /\ C8_Fields
    /\ updates # <<>> =>
          IF count # 0
          THEN ~raised /\ avg[2] # 0 /\ avg[1] * count = sum * avg[2]
          ELSE raised /\ avg[1] = 0

\* three updates since the last reset, of weights 2, 0 and 1 and not all of
\* the same value
C8_Witness ==
    /\ Len(updates) = 3
    /\ updates[1].n = 2
    /\ updates[2].n = 0
    /\ updates[3].n = 1
    /\ updates[1].val # updates[3].val
    /\ count = 3

(***************************************************************************)
(* train.py : FairFaceSubset, evaluate_bias                                *)
(***************************************************************************)
\* line 445, batch_size
BatchSize == 528

\* lines 401-412: self.mapping of a valid bias
GenderMapping == [Male |-> 0, Female |-> 1]

RaceMapping == [White |-> 0, Black |-> 1, Asian |-> 2, Indian |-> 3]

ValidBiases == {"gender", "race"}

MappingOf(b) == IF b = "gender" THEN GenderMapping ELSE RaceMapping

\* the labels a row of the file may hold: those of the mapping, and one
\* that is not in it
LabelsOf(b) == (IF b = "race" THEN DOMAIN RaceMapping ELSE DOMAIN GenderMapping) \cup {"Other"}

\* the files of a bias: no file, an empty file, or a header and up to
\* MaxRows rows <<image name, label>>
LabelsFiles(b) ==
    {[exists |-> FALSE, rows |-> <<>>], [exists |-> TRUE, rows |-> <<>>]} \cup
    UNION {{[exists |-> TRUE,
             rows |-> <<<<"file", "label">>>> \o [q \in 1..n |-> <<q, f[q]>>]] :
                f \in [1..n -> LabelsOf(b)]} : n \in 0..MaxRows}

\* line 400: list(csv.reader(csvfile))[1:]
DropHeader(rows) == IF rows = <<>> THEN <<>> ELSE Tail(rows)

\* line 415 and line 460: len(self.classes)
NumClasses == Cardinality(DOMAIN mapping)

\* line 460: len(dataset) // len(classes), the positions of a class
PerClass == Len(data) \div NumClasses

\* line 430: the index returned for the global index idx and the class cls
LocalIndexUnshifted(idx, cls) == idx

LocalIndex(idx, cls) == idx - cls * (Len(data) \div NumClasses)

FairIdle ==
    /\ bias = "gender"
    /\ labels_file = [exists |-> FALSE, rows |-> <<>>]
    /\ data = <<>>
    /\ mapping = <<>>
    /\ index = 0
    /\ batch = <<>>
    /\ items = <<>>
    /\ results = <<>>
    /\ error = "none"

FairInit ==
    /\ pc = "fair_new"
    /\ bias \in ValidBiases \cup {"age"}
    /\ labels_file \in LabelsFiles(bias)
    /\ data = <<>>
    /\ mapping = <<>>
    /\ index = 0
    /\ batch = <<>>
    /\ items = <<>>
    /\ results = <<>>
    /\ error = "none"

\* lines 395-415 and 460: FairFaceSubset(path, bias): the file is opened and
\* read, then the mapping is chosen or NotImplementedError raised; then the
\* results tensor of zeros is made
FairConstruct ==
    /\ pc = "fair_new"
    /\ IF ~labels_file.exists
       THEN /\ error' = "FileNotFoundError"
            /\ pc' = "fair_error"
            /\ UNCHANGED <<data, mapping, results>>
       ELSE /\ data' = DropHeader(labels_file.rows)
            /\ IF bias \in ValidBiases
               THEN /\ mapping' = MappingOf(bias)
                    /\ results' = [cell \in (0..(Cardinality(DOMAIN MappingOf(bias)) - 1)) \X
                                     (0..((Len(DropHeader(labels_file.rows))
                                            \div Cardinality(DOMAIN MappingOf(bias))) - 1))
                                   |-> {}]
                    /\ pc' = "fair_load"
                    /\ UNCHANGED error
               ELSE /\ error' = "NotImplementedError"
                    /\ pc' = "fair_error"
                    /\ UNCHANGED <<mapping, results>>
    /\ UNCHANGED <<bias, labels_file, index, batch, items>>
    /\ UNCHANGED notFair

\* lines 423-431: __getitem__(index), called by the loader in index order
\* (shuffle=False) until the batch is full
FairGetItem ==
    /\ pc = "fair_load"
    /\ index < Len(data)
    /\ Len(batch) < BatchSize
    /\ LET cls == data[index + 1][2] IN
       IF cls \notin DOMAIN mapping
       THEN /\ error' = "KeyError"
            /\ pc' = "fair_error"
            /\ UNCHANGED <<batch, items, index>>
       ELSE /\ batch' = Append(batch, [global |-> index,
                                       index |-> LocalIndex(index, mapping[cls]),
                                       cls |-> mapping[cls]])
            /\ items' = Append(items, [global |-> index,
                                       index |-> LocalIndex(index, mapping[cls]),
                                       cls |-> mapping[cls]])
            /\ index' = index + 1
            /\ UNCHANGED <<pc, error>>
    /\ UNCHANGED <<bias, labels_file, data, mapping, results>>
    /\ UNCHANGED notFair

\* lines 463-470: results[attributes, indexes] = text_probs for the batch: an
\* index out of [-PerClass, PerClass) raises IndexError, a negative one
\* counts from the end
FairWriteBatch ==
    /\ pc = "fair_load"
    /\ batch # <<>>
    /\ Len(batch) = BatchSize \/ index >= Len(data)
    /\ IF \E q \in 1..Len(batch) : batch[q].index < -PerClass \/ batch[q].index >= PerClass
       THEN /\ error' = "IndexError"
            /\ pc' = "fair_error"
            /\ UNCHANGED <<results, batch>>
       ELSE /\ results' =
                  [cell \in DOMAIN results |->
                      results[cell] \cup
                      {batch[q].global : q \in {r \in 1..Len(batch) :
                          /\ batch[r].cls = cell[1]
                          /\ (IF batch[r].index < 0 THEN batch[r].index + PerClass
                              ELSE batch[r].index) = cell[2]}}]
            /\ batch' = <<>>
            /\ UNCHANGED <<pc, error>>
    /\ UNCHANGED <<bias, labels_file, data, mapping, index, items>>
    /\ UNCHANGED notFair

\* line 472: the loader is exhausted, results.mean(dim=1)
FairMean ==
    /\ pc = "fair_load"
    /\ batch = <<>>
    /\ index >= Len(data)
    /\ pc' = "fair_done"
    /\ UNCHANGED fairVars
    /\ UNCHANGED notFair

FairNext ==
    \/ FairConstruct
    \/ FairGetItem
    \/ FairWriteBatch
    \/ FairMean

(***************************************************************************)
(* C9, as claimed: for every labels file the pairs (cls, index - cls *     *)
(* (len // number of classes)) of the global indices are pairwise distinct *)
(* with the second component in [0, len // number of classes), so that     *)
(* every cell [class, position] of the results is written exactly once.    *)
(***************************************************************************)
C9_PairsDistinctInRange ==
    /\ \A q \in 1..Len(items) : 0 <= items[q].index /\ items[q].index < PerClass
    /\ \A q, r \in 1..Len(items) :
          q # r => <<items[q].cls, items[q].index>> # <<items[r].cls, items[r].index>>

C9_EveryCellWrittenOnce ==
    /\ pc # "fair_error"
    /\ pc = "fair_done" => \A cell \in DOMAIN results : Cardinality(results[cell]) = 1

C9_AsClaimed ==
    pc \in {"fair_load", "fair_done", "fair_error"} /\ error \notin {"FileNotFoundError", "NotImplementedError"}
        => C9_PairsDistinctInRange /\ C9_EveryCellWrittenOnce

(***************************************************************************)
(* C9, amended: the claim holds for the labels files whose rows are        *)
(* grouped by class in the order of the mapping with the same number of    *)
(* rows for every class, and only for them.                                *)
(***************************************************************************)
C9_GroupedByClass ==
    /\ Len(data) % NumClasses = 0
    /\ \A q \in 1..Len(data) :
          /\ data[q][2] \in DOMAIN mapping
          /\ mapping[data[q][2]] = (q - 1) \div PerClass

C9_GroupedFileFillsEveryCell ==
    pc \in {"fair_load", "fair_done"} =>
        /\ C9_GroupedByClass => C9_PairsDistinctInRange
        /\ (C9_GroupedByClass /\ pc = "fair_done") =>
              \A cell \in DOMAIN results :
                  /\ Cardinality(results[cell]) = 1
                  /\ \A g \in results[cell] : mapping[data[g + 1][2]] = cell[1]
        /\ (C9_PairsDistinctInRange /\ pc = "fair_done") => C9_GroupedByClass

\* the results of a file of two 'Male' rows and then two 'Female' rows are
\* complete
C9_Witness ==
    /\ pc = "fair_done"
    /\ bias = "gender"
    /\ Len(data) = 4
    /\ C9_GroupedByClass
    /\ \A cell \in DOMAIN results : results[cell] # {}

(***************************************************************************)
(* C10, as claimed: constructing FairFaceSubset with a bias other than     *)
(* 'gender' or 'race' fails with NotImplementedError, for every path, and  *)
(* no other error is raised first.                                         *)
(***************************************************************************)
C10_AsClaimed ==
    (bias \notin {"gender", "race"} /\ pc # "fair_new") => error = "NotImplementedError"

(***************************************************************************)
(* train.py : get_clip_metrics (lines 367-384).  evaluate (line 321) calls *)
(* it with the features of every validation batch concatenated, so there   *)
(* is at least one pair.  Features are integer vectors; the order argsort  *)
(* gives to equal logits is not specified, so it is any of the orders.     *)
(***************************************************************************)
\* the feature vectors the arguments are drawn from
FeatureVectors == {<<1, 2>>, <<2, 1>>}

\* the values logit_scale is drawn from
MetricScales == {-1, 1}

\* line 372: the keys of logits, in the order of the dictionary
LogitNames == <<"image_to_text", "text_to_image">>

\* line 381: for k in [1, 5, 10]
RecallCuts == <<1, 5, 10>>

RECURSIVE DotUpTo(_, _, _)
DotUpTo(u, v, n) == IF n = 0 THEN 0 ELSE DotUpTo(u, v, n - 1) + u[n] * v[n]

\* a row of a @ b.t()
Dot(u, v) == DotUpTo(u, v, Len(u))

\* logit_scale * image_features
ScaleRows(s, a) == [r \in 1..Len(a) |-> [q \in 1..Len(a[r]) |-> s * a[r][q]]]

\* a @ b.t()
MatMulT(a, b) == [r \in 1..Len(a) |-> [c \in 1..Len(b) |-> Dot(a[r], b[c])]]

\* m.t(), of a matrix of w columns
Transpose(m, w) == [r \in 1..w |-> [c \in 1..Len(m) |-> m[c][r]]]

\* line 369
LogitsPerImage(imf, txf, s) == MatMulT(ScaleRows(s, imf), txf)

\* line 370
LogitsPerText(imf, txf, s) == Transpose(LogitsPerImage(imf, txf, s), Len(txf))

\* line 372
Logits(name) ==
    IF name = "image_to_text"
    THEN LogitsPerImage(image_features, text_features, logit_scale)
    ELSE LogitsPerText(image_features, text_features, logit_scale)

\* line 373: torch.arange(len(text_features)).view(-1, 1)
GroundTruth(txf) == [r \in 1..Len(txf) |-> r - 1]

\* torch.argsort(row, descending=True): the 0-based column indices, every
\* one once, by descending value; equal values in any order
Argsorts(row) ==
    {p \in [1..Len(row) -> 0..(Len(row) - 1)] :
        /\ \A q1, q2 \in 1..Len(row) : q1 # q2 => p[q1] # p[q2]
        /\ \A q \in 1..(Len(row) - 1) : row[p[q] + 1] >= row[p[q + 1] + 1]}

\* the 0-based columns of a sorted row that hold the value g: row r of
\* torch.where(ranking == ground_truth)[1], ground_truth broadcast along
\* the row
RowMatches(sorted, g) ==
    LET cols == [c \in 1..Len(sorted) |-> c - 1]
        Hit(c) == sorted[c + 1] = g
    IN  SelectSeq(cols, Hit)

RECURSIVE PredsUpTo(_, _, _)
PredsUpTo(logit, gt, r) ==
    IF r = 0 THEN {<<>>}
    ELSE {above \o RowMatches(p, gt[r]) :
              above \in PredsUpTo(logit, gt, r - 1), p \in Argsorts(logit[r])}

\* lines 376-377: argsort sorts every row on its own and where lists the
\* matches in row-major order, so the outcomes are those of row 1, then
\* those of row 2, ...
Preds(logit, gt) == PredsUpTo(logit, gt, Len(logit))

RECURSIVE SumUpTo(_, _)
SumUpTo(p, n) == IF n = 0 THEN 0 ELSE SumUpTo(p, n - 1) + p[n]

\* line 379: preds.mean() + 1, as a fraction
MeanRank(p) == <<SumUpTo(p, Len(p)) + Len(p), Len(p)>>

\* the k-th smallest element of p
KthSmallest(p, k) ==
    CHOOSE v \in {p[q] : q \in 1..Len(p)} :
        /\ Cardinality({q \in 1..Len(p) : p[q] < v}) < k
        /\ k <= Cardinality({q \in 1..Len(p) : p[q] <= v})

\* line 380: np.floor(np.median(preds)) + 1
MedianRank(p) ==
    IF Len(p) % 2 = 1 THEN KthSmallest(p, (Len(p) + 1) \div 2) + 1
    ELSE (KthSmallest(p, Len(p) \div 2) + KthSmallest(p, Len(p) \div 2 + 1)) \div 2 + 1

RecallAtInclusive(p, k) == <<Cardinality({q \in 1..Len(p) : p[q] <= k}), Len(p)>>

\* line 382: np.mean(preds < k), as a fraction
RecallAt(p, k) == <<Cardinality({q \in 1..Len(p) : p[q] < k}), Len(p)>>

\* lines 379-382: the entries of metrics of one name
MetricsOf(p) ==
    [mean_rank |-> MeanRank(p),
     median_rank |-> MedianRank(p),
     R |-> [k \in {RecallCuts[q] : q \in 1..Len(RecallCuts)} |-> RecallAt(p, k)]]

\* the dictionary d with d[key] = value
WithEntry(d, key, value) ==
    [e \in DOMAIN d \cup {key} |-> IF e = key THEN value ELSE d[e]]

MetricsIdle ==
    /\ image_features = <<>>
    /\ text_features = <<>>
    /\ logit_scale = 0
    /\ todo = <<>>
    /\ preds = <<>>
    /\ metrics = <<>>

\* lines 367-373: the call, with as many image features as text features
MetricsInit ==
    /\ pc = "metrics"
    /\ \E n \in 1..MaxPairs :
          /\ image_features \in [1..n -> FeatureVectors]
          /\ text_features \in [1..n -> FeatureVectors]
    /\ logit_scale \in MetricScales
    /\ todo = LogitNames
    /\ preds = <<>>
    /\ metrics = <<>>

\* lines 375-382: one iteration of the loop over logits
RankDirection ==
    /\ pc = "metrics"
    /\ todo # <<>>
    /\ \E found \in Preds(Logits(Head(todo)), GroundTruth(text_features)) :
          /\ preds' = found
          /\ metrics' = WithEntry(metrics, Head(todo), MetricsOf(found))
    /\ todo' = Tail(todo)
    /\ UNCHANGED <<pc, image_features, text_features, logit_scale>>
    /\ UNCHANGED notMetrics

\* line 384
MetricsReturn ==
    /\ pc = "metrics"
    /\ todo = <<>>
    /\ pc' = "metrics_done"
    /\ UNCHANGED metricsVars
    /\ UNCHANGED notMetrics

MetricsNext ==
    \/ RankDirection
    \/ MetricsReturn

(***************************************************************************)
(* C11: get_clip_metrics, for N paired image and text features and every   *)
(* logit matrix, ties included, gives each of the N ground-truth pairs     *)
(* exactly one 0-based rank in [0, N - 1] in each direction: preds has N   *)
(* entries and entry q is a position the logit of pair q can take in row q *)
(* sorted by descending value.  mean_rank is the mean of these ranks plus  *)
(* 1 and lies in [1, N]; R@k is the fraction of the pairs of rank below k, *)
(* so R@1 <= R@5 <= R@10, and R@k = 1 whenever N <= k.                     *)
(***************************************************************************)
C11_N == Len(text_features)

\* the key of logits of the last iteration
C11_Current == LogitNames[Len(LogitNames) - Len(todo)]

RECURSIVE C11_Total(_)
C11_Total(p) == IF p = <<>> THEN 0 ELSE Head(p) + C11_Total(Tail(p))

C11_Below(p, k) == Cardinality({q \in DOMAIN p : p[q] < k})

\* rank is a position of the logit of pair q in its row sorted downwards:
\* after every greater logit and before every smaller one
C11_RankOfPair(row, q, rank) ==
    /\ rank \in 0..(C11_N - 1)
    /\ Cardinality({c \in DOMAIN row : row[c] > row[q]}) <= rank
    /\ rank <= Cardinality({c \in DOMAIN row : c # q /\ row[c] >= row[q]})

C11_OneRankPerPair ==
    /\ Len(preds) = C11_N
    /\ \A q \in 1..C11_N : C11_RankOfPair(Logits(C11_Current)[q], q, preds[q])

C11_MetricsOfPreds ==
    /\ metrics[C11_Current].mean_rank = <<C11_Total(preds) + C11_N, C11_N>>
    /\ \A k \in {1, 5, 10} :
          metrics[C11_Current].R[k] = <<C11_Below(preds, k), C11_N>>

C11_Ranges(name) ==
    LET mean == metrics[name].mean_rank
        R == metrics[name].R
    IN  /\ mean[2] = C11_N
        /\ 1 * mean[2] <= mean[1]
        /\ mean[1] <= C11_N * mean[2]
        /\ DOMAIN R = {1, 5, 10}
        /\ \A k \in DOMAIN R : R[k][2] = C11_N /\ R[k][1] \in 0..C11_N
        /\ R[1][1] <= R[5][1]
        /\ R[5][1] <= R[10][1]
        /\ \A k \in DOMAIN R : C11_N <= k => R[k][1] = R[k][2]

InitTrain == TrainInit /\ OrdIdle /\ CsvIdle /\ ImgsIdle /\ GenIdle /\ MeterIdle /\ FairIdle
    /\ MetricsIdle

SpecTrain == InitTrain /\ [][TrainNext]_vars

InitOrd == OrdInit /\ TrainIdle /\ CsvIdle /\ ImgsIdle /\ GenIdle /\ MeterIdle /\ FairIdle
    /\ MetricsIdle

SpecOrd == InitOrd /\ [][OrdNext]_vars

InitCsv == CsvInit /\ TrainIdle /\ OrdIdle /\ ImgsIdle /\ GenIdle /\ MeterIdle /\ FairIdle
    /\ MetricsIdle

SpecCsv == InitCsv /\ [][CsvNext]_vars

InitImgs == ImgsInit /\ TrainIdle /\ OrdIdle /\ CsvIdle /\ GenIdle /\ MeterIdle /\ FairIdle
    /\ MetricsIdle

SpecImgs == InitImgs /\ [][ImgsNext]_vars

InitGen == GenInit /\ TrainIdle /\ OrdIdle /\ CsvIdle /\ ImgsIdle /\ MeterIdle /\ FairIdle
    /\ MetricsIdle

SpecGen == InitGen /\ [][GenNext]_vars

InitMeter == MeterInit /\ TrainIdle /\ OrdIdle /\ CsvIdle /\ ImgsIdle /\ GenIdle /\ FairIdle
    /\ MetricsIdle

SpecMeter == InitMeter /\ [][MeterNext]_vars

InitFair == FairInit /\ TrainIdle /\ OrdIdle /\ CsvIdle /\ ImgsIdle /\ GenIdle /\ MeterIdle
    /\ MetricsIdle

SpecFair == InitFair /\ [][FairNext]_vars

InitMetrics == MetricsInit /\ TrainIdle /\ OrdIdle /\ CsvIdle /\ ImgsIdle /\ GenIdle /\ MeterIdle
    /\ FairIdle

SpecMetrics == InitMetrics /\ [][MetricsNext]_vars

=============================================================================
